---------------------------- MODULE Spec2Model ----------------------------
(***************************************************************************)
(* A model of lightning-terminal's configuration bootstrap (src/config.go):*)
(* the layered configuration load (loadAndValidateConfig, loadConfigFile), *)
(* the remote-mode validation (validateRemoteModeConfig), the UI password  *)
(* resolution (readUIPassword), the dial parameters (lndConnectParams),    *)
(* the TLS provisioning (buildTLSConfigForHttp2) and the on-demand         *)
(* listener (onDemandListener).                                            *)
(*                                                                         *)
(* Strings the code trims, measures or searches are sequences of           *)
(* characters; file system paths are sequences of path segments.           *)
(***************************************************************************)
EXTENDS Integers, Sequences, FiniteSets, TLC

(***************************************************************************)
(* Bounds of the model.                                                    *)
(***************************************************************************)
\* longest run of one character in a generated password
MaxPwLen == 9
\* most RPC listeners the in-process node's validator may report
MaxListeners == 2
\* most certificate generations followed in one behaviour
MaxGen == 2
\* most completed calls on the on-demand listener followed in one behaviour
MaxCalls == 3

(***************************************************************************)
(* Strings: Go strings are UTF-8 byte strings.  A string is modelled as a  *)
(* sequence of characters, each with the number of bytes of its encoding.  *)
(***************************************************************************)
\* the characters of the model: a letter, two white space characters and
\* U+00E9 (e with acute accent), whose UTF-8 encoding takes two bytes
Chars == {"a", " ", "\t", "U+00E9"}

\* unicode.IsSpace, as strings.TrimSpace uses it
IsSpace(c) == c \in {" ", "\t"}

\* the bytes of a character's UTF-8 encoding
ByteWidth(c) == IF c = "U+00E9" THEN 2 ELSE 1

RECURSIVE GoLen(_)
\* Go's len(s) of a string: its length in bytes
GoLen(s) == IF s = <<>> THEN 0 ELSE ByteWidth(Head(s)) + GoLen(Tail(s))

RECURSIVE TrimLeft(_)
TrimLeft(s) ==
    IF s = <<>> THEN s
    ELSE IF IsSpace(Head(s)) THEN TrimLeft(Tail(s)) ELSE s

RECURSIVE TrimRight(_)
TrimRight(s) ==
    IF s = <<>> THEN s
    ELSE IF IsSpace(s[Len(s)]) THEN TrimRight(SubSeq(s, 1, Len(s) - 1)) ELSE s

\* strings.TrimSpace
TrimSpace(s) == TrimRight(TrimLeft(s))

\* n copies of the character c
Rep(c, n) == [i \in 1..n |-> c]

\* whether sub occurs in s at position i
MatchAt(s, sub, i) ==
    /\ i >= 1
    /\ i + Len(sub) - 1 <= Len(s)
    /\ SubSeq(s, i, i + Len(sub) - 1) = sub

\* strings.Contains
Contains(s, sub) == \E i \in 1..(Len(s) + 1) : MatchAt(s, sub, i)

\* strings.Replace(s, old, new, 1): the first occurrence of old replaced
Replace1(s, old, new) ==
    IF ~Contains(s, old) THEN s
    ELSE LET i == CHOOSE k \in 1..(Len(s) + 1) :
                     /\ MatchAt(s, old, k)
                     /\ \A j \in 1..(k - 1) : ~MatchAt(s, old, j)
         IN SubSeq(s, 1, i - 1) \o new \o SubSeq(s, i + Len(old), Len(s))

(***************************************************************************)
(* Paths.                                                                  *)
(***************************************************************************)
\* the home directory "~" expands to
Home == <<"home", "user">>

RECURSIVE DropDots(_)
DropDots(p) ==
    IF p = <<>> THEN p
    ELSE IF Head(p) = "." THEN DropDots(Tail(p))
    ELSE <<Head(p)>> \o DropDots(Tail(p))

\* lncfg.CleanAndExpandPath: "" stays "", a leading "~" becomes the home
\* directory, "." segments are dropped
CleanAndExpandPath(p) ==
    IF p = <<>> THEN p
    ELSE IF Head(p) = "~" THEN Home \o DropDots(Tail(p))
    ELSE DropDots(p)

\* filepath.Join / path.Join
Join(p, q) == DropDots(p \o q)

\* filepath.Dir
Dir(p) == IF p = <<>> THEN <<".">> ELSE SubSeq(p, 1, Len(p) - 1)

(***************************************************************************)
(* Constants and defaults of the program.                                  *)
(***************************************************************************)
uiPasswordMinLength == 8

ModeIntegrated == "integrated"
ModeRemote == "remote"
defaultLndMode == ModeRemote
defaultConfigFilename == "lit.conf"
defaultLetsEncryptSubDir == "letsencrypt"
defaultLogDirname == "logs"
defaultTLSCertFilename == "tls.cert"
defaultTLSKeyFilename == "tls.key"
defaultNetwork == "mainnet"
defaultLndChainSubDir == "chain"
defaultLndChain == "bitcoin"
defaultLndMacaroon == "admin.macaroon"

\* lnd.DefaultConfig(): the fields of it the program reads
lndDefaultConfig ==
    [DataDir |-> Home \o <<".lnd", "data">>,
     TLSCertPath |-> Home \o <<".lnd", "tls.cert">>,
     TLSKeyPath |-> Home \o <<".lnd", "tls.key">>]

defaultLitDir == Home \o <<".lit">>
defaultTLSCertPath == Join(defaultLitDir, <<defaultTLSCertFilename>>)
defaultTLSKeyPath == Join(defaultLitDir, <<defaultTLSKeyFilename>>)
defaultConfigFile == Join(defaultLitDir, <<defaultConfigFilename>>)
defaultLogDir == Join(defaultLitDir, <<defaultLogDirname>>)
defaultLetsEncryptDir == Join(defaultLitDir, <<defaultLetsEncryptSubDir>>)
defaultRemoteLndMacDir ==
    Join(lndDefaultConfig.DataDir,
         <<defaultLndChainSubDir, defaultLndChain, defaultNetwork>>)

\* the networks lndclient.Network(..).ChainParams() knows
Networks == {"mainnet", "testnet", "regtest", "simnet"}

\* the values the choice tags of the flag parser admit
ModeChoices == {ModeIntegrated, ModeRemote}
NetworkChoices == Networks

\* the errors of the resolution, named as the specification names them
NoErr == "none"

\* defaultConfig(): the fields of Config the model follows.  RPCListeners,
\* Bitcoin and ShowVersion are fields of the embedded lnd configuration.
defaultConfig ==
    [UIPassword |-> <<>>,
     UIPasswordFile |-> <<>>,
     UIPasswordEnv |-> <<>>,
     LetsEncrypt |-> FALSE,
     LetsEncryptHost |-> "",
     LetsEncryptDir |-> defaultLetsEncryptDir,
     LndMode |-> defaultLndMode,
     LitDir |-> defaultLitDir,
     ConfigFile |-> defaultConfigFile,
     LitTLSCertPath |-> defaultTLSCertPath,
     LitTLSKeyPath |-> defaultTLSKeyPath,
     LitLogDir |-> defaultLogDir,
     Network |-> defaultNetwork,
     MacaroonDir |-> defaultRemoteLndMacDir,
     MacaroonPath |-> <<>>,
     RPCServer |-> <<"l", "o", "c", "a", "l", "h", "o", "s", "t", ":",
                     "1", "0", "0", "0", "9">>,
     TLSCertPath |-> lndDefaultConfig.TLSCertPath,
     ShowVersion |-> FALSE,
     RPCListeners |-> <<>>,
     Bitcoin |-> "none",
     network |-> ""]


(***************************************************************************)
(* State.                                                                  *)
(***************************************************************************)
VARIABLES
    \* os.Args: the fields the command line sets, a partial record
    args,
    \* the configuration file: its state ("absent", "malformed" or "present")
    \* and the fields it sets, a partial record
    iniFile,
    \* the file UIPasswordFile names: whether it can be read, and its content
    pwFile,
    \* the value of the environment variable UIPasswordEnv names ("" if unset)
    environ,
    \* the Config being resolved (preCfg and cfg are the same pointer)
    cfg,
    \* whether the missing configuration file has been logged as a warning
    warned,
    \* the position of loadAndValidateConfig
    pc,
    \* the error loadAndValidateConfig returned, NoErr if none
    err,
    \* what lndConnectParams returned, once it has been called
    dial,
    \* the files at LitTLSCertPath and LitTLSKeyPath: 0 if the file does not
    \* exist, -1 if the operator put it there, n > 0 if the n-th generation of
    \* a self-signed pair wrote it
    certFile,
    keyFile,
    \* whether the pair of the in-process lnd loads
    lndPairOK,
    \* the self-signed pairs generated so far
    gens,
    \* the calls of buildTLSConfigForHttp2 so far
    tlsCalls,
    \* the last call of buildTLSConfigForHttp2: its result, the certificate of
    \* the TLS configuration it returned, whether it generated a pair
    tlsLast,
    \* the Let's Encrypt challenge listeners: the goroutines started and not
    \* yet listening, whether one listens, the errors logged
    acme,
    \* the onDemandListener: the address it was asked to listen on, its
    \* fields addr and lis (0 for nil, else an index into sockets)
    requested,
    lAddr,
    lis,
    \* the sockets net.Listen has bound, and every call of net.Listen made:
    \* the ordinal of the Accept() call that made it and whether it bound
    sockets,
    attempts,
    \* the Accept() calls started so far
    calls,
    \* each caller's position in Accept() and the ordinal of its call
    tpc,
    tcall,
    \* what the last Addr(), the last Accept() and the last Close() returned
    addrRet,
    lastAccept,
    lastClose,
    \* whether a caller dereferenced the nil listener
    crashed

cfgVars == <<args, iniFile, pwFile, environ, cfg, warned, pc, err>>
dialVars == <<dial>>
tlsVars == <<certFile, keyFile, lndPairOK, gens, tlsCalls, tlsLast, acme>>

lisVars == <<requested, lAddr, lis, sockets, attempts, calls, tpc, tcall,
             addrRet, lastAccept, lastClose, crashed>>

vars == <<cfgVars, dialVars, tlsVars, lisVars>>

\* the variables the resolution of the configuration leaves alone
outsideConfig == <<dialVars, tlsVars, lisVars>>

(***************************************************************************)
(* The flag parser.                                                        *)
(***************************************************************************)
\* the fields of layer laid over c: what flags.Parse and flags.IniParse do to
\* the struct they are given
Overlay(c, layer) ==
    [f \in DOMAIN c |-> IF f \in DOMAIN layer THEN layer[f] ELSE c[f]]

\* whether the parser accepts the layer: every field is an option of Config
\* and the fields with choice tags hold one of the choices
FlagsValid(layer) ==
    /\ DOMAIN layer \subseteq DOMAIN defaultConfig
    /\ "LndMode" \in DOMAIN layer => layer.LndMode \in ModeChoices
    /\ "Network" \in DOMAIN layer => layer.Network \in NetworkChoices

(***************************************************************************)
(* validateRemoteModeConfig.                                               *)
(***************************************************************************)
\* MacaroonConflict with the comparison of the directory turned around
MacaroonConflict_SameDir(c) ==
    /\ c.MacaroonDir = defaultRemoteLndMacDir
    /\ c.MacaroonPath # <<>>

\* MacaroonConflict with the check left out
MacaroonConflict_Never(c) == FALSE

\* users can either specify the macaroon directory or the custom macaroon,
\* but not both
MacaroonConflict(c) ==
    /\ c.MacaroonDir # defaultRemoteLndMacDir
    /\ c.MacaroonPath # <<>>

\* AdjustMacaroonDir joining the default network instead of the configured
AdjustMacaroonDir_DefaultNetwork(c) ==
    IF c.Network # defaultNetwork /\ c.MacaroonDir = defaultRemoteLndMacDir
    THEN [c EXCEPT !.MacaroonDir =
              Join(lndDefaultConfig.DataDir,
                   <<defaultLndChainSubDir, defaultLndChain, defaultNetwork>>)]
    ELSE c

\* the default macaroon directory adjusted to the remote lnd's network
AdjustMacaroonDir(c) ==
    IF c.Network # defaultNetwork /\ c.MacaroonDir = defaultRemoteLndMacDir
    THEN [c EXCEPT !.MacaroonDir =
              Join(lndDefaultConfig.DataDir,
                   <<defaultLndChainSubDir, defaultLndChain, c.Network>>)]
    ELSE c

\* the files and directories that live in a lit directory that is not the
\* default, then every path cleaned and expanded
AdjustLitDirPaths(c) ==
    LET litDir == CleanAndExpandPath(c.LitDir)
        moved == IF litDir # defaultLitDir
                 THEN [c EXCEPT
                          !.LitTLSCertPath = Join(litDir, <<defaultTLSCertFilename>>),
                          !.LitTLSKeyPath = Join(litDir, <<defaultTLSKeyFilename>>),
                          !.LitLogDir = Join(litDir, <<defaultLogDirname>>)]
                 ELSE c
    IN [moved EXCEPT
           !.LitTLSCertPath = CleanAndExpandPath(moved.LitTLSCertPath),
           !.LitTLSKeyPath = CleanAndExpandPath(moved.LitTLSKeyPath),
           !.LitLogDir = CleanAndExpandPath(moved.LitLogDir)]

\* what the operating system and the logging backend answer during
\* validateRemoteModeConfig: the step of it that fails, if any
RemoteEnvs == {"none", "mkdirCert", "mkdirKey", "logRotator", "debugLevel"}

\* validateRemoteModeConfig(cfg): the Config as it leaves it, and its error
validateRemoteModeConfig(c, env) ==
    IF c.Network \notin Networks
    THEN [cfg |-> c, err |-> "InvalidNetwork"]
    ELSE LET c1 == [c EXCEPT !.network = c.Network] IN
    IF MacaroonConflict(c1)
    THEN [cfg |-> c1, err |-> "ConflictingMacaroonConfig"]
    ELSE LET c2 == AdjustLitDirPaths(AdjustMacaroonDir(c1)) IN
    IF env \in {"mkdirCert", "mkdirKey"}
    THEN [cfg |-> c2, err |-> "DirectoryCreateFailed"]
    ELSE IF env = "logRotator"
    THEN [cfg |-> c2, err |-> "LogRotationFailed"]
    ELSE IF env = "debugLevel"
    THEN [cfg |-> c2, err |-> "InvalidDebugLevel"]
    ELSE [cfg |-> c2, err |-> NoErr]


(***************************************************************************)
(* loadConfigFile.                                                         *)
(***************************************************************************)
\* the address lnd listens on for RPC connections when none is configured
defaultRPCAddr == [net |-> "tcp", ip |-> <<127, 0, 0, 1>>, port |-> 10009]

\* what lnd.ValidateConfig answers for the in-process node: an error, or the
\* validated configuration with its RPC listeners and its network flag
LndOutcomes ==
    {[ok |-> FALSE, listeners |-> 0, net |-> "none"]}
        \cup [ok : {TRUE}, listeners : 0..MaxListeners,
              net : Networks \cup {"none"}]

\* the collaborators loadConfigFile consults for a Config: the operating
\* system for the lit directory, then the in-process node's validator in
\* integrated mode and the remote-mode environment otherwise
Collaborators(c, argv, ini) ==
    LET mode == Overlay(IF ini.state = "present" THEN Overlay(c, ini.layer)
                        ELSE c, argv).LndMode
    IN [mkdirOK : BOOLEAN,
        lnd : IF mode = ModeIntegrated THEN LndOutcomes
              ELSE {[ok |-> FALSE, listeners |-> 0, net |-> "none"]},
        env : IF mode = ModeRemote THEN RemoteEnvs ELSE {"none"}]

\* getNetwork(cfg.Lnd.Bitcoin)
getNetwork(chain) ==
    IF chain \in Networks
    THEN [network |-> chain, err |-> NoErr]
    ELSE [network |-> "", err |-> "NoNetworkSelected"]

\* the config file path: the one in the lit directory if only that was moved
configFilePathOf(preCfg) ==
    LET litDir == CleanAndExpandPath(preCfg.LitDir)
        path == CleanAndExpandPath(preCfg.ConfigFile)
    IN IF litDir # defaultLitDir /\ path = defaultConfigFile
       THEN Join(litDir, <<defaultConfigFilename>>)
       ELSE path

\* the mode-dependent part of loadConfigFile (the switch on cfg.LndMode)
validateMode(c, lnd, env) ==
    IF c.LndMode = ModeIntegrated
    THEN IF ~lnd.ok
         THEN [cfg |-> c, err |-> "LndConfigInvalid"]
         ELSE LET c1 == [c EXCEPT !.RPCListeners =
                                       [i \in 1..lnd.listeners |-> defaultRPCAddr],
                                  !.Bitcoin = lnd.net]
                  n == getNetwork(c1.Bitcoin)
              IN IF n.err # NoErr
                 THEN [cfg |-> c1, err |-> n.err]
                 ELSE [cfg |-> [c1 EXCEPT !.network = n.network], err |-> NoErr]
    ELSE IF c.LndMode = ModeRemote
    THEN validateRemoteModeConfig(c, env)
    ELSE [cfg |-> c, err |-> "InvalidMode"]

\* loadConfigFile without the second parse of the command line
loadConfigFile_NoSecondParse(preCfg, argv, ini, mkdirOK, lnd, env) ==
    IF ini.state = "malformed"
    THEN [cfg |-> preCfg, err |-> "ConfigSyntaxError", warned |-> FALSE]
    ELSE LET configFileError == ini.state = "absent"
             fromFile == IF configFileError THEN preCfg
                         ELSE Overlay(preCfg, ini.layer)
             merged == fromFile
         IN
    IF ~FlagsValid(argv)
    THEN [cfg |-> fromFile, err |-> "ConfigSyntaxError", warned |-> FALSE]
    ELSE IF ~mkdirOK
    THEN [cfg |-> merged, err |-> "DirectoryCreateFailed", warned |-> FALSE]
    ELSE LET r == validateMode(merged, lnd, env) IN
    IF r.err # NoErr
    THEN [cfg |-> r.cfg, err |-> r.err, warned |-> FALSE]
    ELSE [cfg |-> r.cfg, err |-> NoErr, warned |-> configFileError]

\* loadConfigFile(preCfg): the Config as it leaves it, its error, and whether
\* it logged the warning about the missing configuration file
loadConfigFile(preCfg, argv, ini, mkdirOK, lnd, env) ==
    IF ini.state = "malformed"
    THEN [cfg |-> preCfg, err |-> "ConfigSyntaxError", warned |-> FALSE]
    ELSE LET configFileError == ini.state = "absent"
             fromFile == IF configFileError THEN preCfg
                         ELSE Overlay(preCfg, ini.layer)
             merged == Overlay(fromFile, argv)
         IN
    IF ~FlagsValid(argv)
    THEN [cfg |-> fromFile, err |-> "ConfigSyntaxError", warned |-> FALSE]
    ELSE IF ~mkdirOK
    THEN [cfg |-> merged, err |-> "DirectoryCreateFailed", warned |-> FALSE]
    ELSE LET r == validateMode(merged, lnd, env) IN
    IF r.err # NoErr
    THEN [cfg |-> r.cfg, err |-> r.err, warned |-> FALSE]
    ELSE [cfg |-> r.cfg, err |-> NoErr, warned |-> configFileError]

(***************************************************************************)
(* readUIPassword.                                                         *)
(***************************************************************************)
\* readUIPassword looking at the password file before the direct value
readUIPassword_FileFirst(c, file, envValue) ==
    IF GoLen(TrimSpace(c.UIPasswordFile)) > 0
    THEN IF ~file.ok
         THEN [cfg |-> c, err |-> "FileUnreadable"]
         ELSE [cfg |-> [c EXCEPT !.UIPassword = TrimSpace(file.content)],
               err |-> NoErr]
    ELSE IF GoLen(TrimSpace(c.UIPassword)) > 0
    THEN [cfg |-> [c EXCEPT !.UIPassword = TrimSpace(c.UIPassword)],
          err |-> NoErr]
    ELSE IF GoLen(TrimSpace(c.UIPasswordEnv)) > 0
    THEN IF GoLen(envValue) = 0
         THEN [cfg |-> c, err |-> "EnvVarEmpty"]
         ELSE [cfg |-> [c EXCEPT !.UIPassword = TrimSpace(envValue)],
               err |-> NoErr]
    ELSE [cfg |-> c, err |-> "NoCredentialConfigured"]

\* readUIPassword taking the environment variable's value even when empty
readUIPassword_NoEmptyCheck(c, file, envValue) ==
    IF GoLen(TrimSpace(c.UIPassword)) > 0
    THEN [cfg |-> [c EXCEPT !.UIPassword = TrimSpace(c.UIPassword)],
          err |-> NoErr]
    ELSE IF GoLen(TrimSpace(c.UIPasswordFile)) > 0
    THEN IF ~file.ok
         THEN [cfg |-> c, err |-> "FileUnreadable"]
         ELSE [cfg |-> [c EXCEPT !.UIPassword = TrimSpace(file.content)],
               err |-> NoErr]
    ELSE IF GoLen(TrimSpace(c.UIPasswordEnv)) > 0
    THEN [cfg |-> [c EXCEPT !.UIPassword = TrimSpace(envValue)],
          err |-> NoErr]
    ELSE [cfg |-> c, err |-> "NoCredentialConfigured"]

\* readUIPassword passing over a password file whose content is blank
readUIPassword_SkipBlankFile(c, file, envValue) ==
    IF GoLen(TrimSpace(c.UIPassword)) > 0
    THEN [cfg |-> [c EXCEPT !.UIPassword = TrimSpace(c.UIPassword)],
          err |-> NoErr]
    ELSE IF /\ GoLen(TrimSpace(c.UIPasswordFile)) > 0
            /\ ~(file.ok /\ TrimSpace(file.content) = <<>>)
    THEN IF ~file.ok
         THEN [cfg |-> c, err |-> "FileUnreadable"]
         ELSE [cfg |-> [c EXCEPT !.UIPassword = TrimSpace(file.content)],
               err |-> NoErr]
    ELSE IF GoLen(TrimSpace(c.UIPasswordEnv)) > 0
    THEN IF GoLen(envValue) = 0
         THEN [cfg |-> c, err |-> "EnvVarEmpty"]
         ELSE [cfg |-> [c EXCEPT !.UIPassword = TrimSpace(envValue)],
               err |-> NoErr]
    ELSE [cfg |-> c, err |-> "NoCredentialConfigured"]

\* readUIPassword(config): the Config as it leaves it, and its error
readUIPassword(c, file, envValue) ==
    IF GoLen(TrimSpace(c.UIPassword)) > 0
    THEN [cfg |-> [c EXCEPT !.UIPassword = TrimSpace(c.UIPassword)],
          err |-> NoErr]
    ELSE IF GoLen(TrimSpace(c.UIPasswordFile)) > 0
    THEN IF ~file.ok
         THEN [cfg |-> c, err |-> "FileUnreadable"]
         ELSE [cfg |-> [c EXCEPT !.UIPassword = TrimSpace(file.content)],
               err |-> NoErr]
    ELSE IF GoLen(TrimSpace(c.UIPasswordEnv)) > 0
    THEN IF GoLen(envValue) = 0
         THEN [cfg |-> c, err |-> "EnvVarEmpty"]
         ELSE [cfg |-> [c EXCEPT !.UIPassword = TrimSpace(envValue)],
               err |-> NoErr]
    ELSE [cfg |-> c, err |-> "NoCredentialConfigured"]

\* the check of the password's length in loadAndValidateConfig
PasswordTooShort(c) == GoLen(c.UIPassword) < uiPasswordMinLength

\* TooManyListeners off by one
TooManyListeners_OffByOne(c) == Len(c.RPCListeners) > 2

\* the check of the number of RPC listeners in loadAndValidateConfig
TooManyListeners(c) == Len(c.RPCListeners) > 1

\* the Let's Encrypt directory, moved with a lit directory that is not the
\* default
AdjustLetsEncryptDir(c) ==
    LET litDir == CleanAndExpandPath(c.LitDir)
        dir == CleanAndExpandPath(c.LetsEncryptDir)
    IN [c EXCEPT !.LetsEncryptDir =
           IF litDir # defaultLitDir /\ dir = defaultLetsEncryptDir
           THEN Join(litDir, <<defaultLetsEncryptSubDir>>)
           ELSE dir]

(***************************************************************************)
(* loadAndValidateConfig, step by step.                                    *)
(***************************************************************************)
Fail(e) == pc' = "failed" /\ err' = e

\* the defaults, the first parse of the command line, the version query
PreParse ==
    /\ pc = "preParse"
    /\ IF ~FlagsValid(args)
       THEN Fail("ConfigSyntaxError") /\ UNCHANGED cfg
       ELSE /\ cfg' = Overlay(defaultConfig, args)
            /\ IF cfg'.ShowVersion
               THEN pc' = "exit" /\ err' = "RequestedExit"
               ELSE pc' = "loadConfigFile" /\ UNCHANGED err
    /\ UNCHANGED <<args, iniFile, pwFile, environ, warned>>
    /\ UNCHANGED outsideConfig

\* cfg, err := loadConfigFile(preCfg, usageMessage)
LoadConfigFile ==
    /\ pc = "loadConfigFile"
    /\ \E x \in Collaborators(cfg, args, iniFile) :
          LET r == loadConfigFile(cfg, args, iniFile, x.mkdirOK, x.lnd, x.env)
          IN /\ cfg' = r.cfg
             /\ warned' = r.warned
             /\ IF r.err # NoErr
                THEN Fail(r.err)
                ELSE pc' = "validateLit" /\ UNCHANGED err
    /\ UNCHANGED <<args, iniFile, pwFile, environ>>
    /\ UNCHANGED outsideConfig

\* the Let's Encrypt options
ValidateLit ==
    /\ pc = "validateLit"
    /\ cfg' = AdjustLetsEncryptDir(cfg)
    /\ \E mkdirOK \in BOOLEAN :
          IF cfg.LetsEncrypt /\ cfg.LetsEncryptHost = ""
          THEN Fail("MissingACMEHost")
          ELSE IF cfg.LetsEncrypt /\ ~mkdirOK
          THEN Fail("DirectoryCreateFailed")
          ELSE pc' = "readUIPassword" /\ UNCHANGED err
    /\ UNCHANGED <<args, iniFile, pwFile, environ, warned>>
    /\ UNCHANGED outsideConfig

\* err = readUIPassword(cfg)
ReadUIPassword ==
    /\ pc = "readUIPassword"
    /\ LET r == readUIPassword(cfg, pwFile, environ)
       IN /\ cfg' = r.cfg
          /\ IF r.err # NoErr
             THEN Fail(r.err)
             ELSE pc' = "checkPassword" /\ UNCHANGED err
    /\ UNCHANGED <<args, iniFile, pwFile, environ, warned>>
    /\ UNCHANGED outsideConfig

\* the minimum length of the password
CheckPassword ==
    /\ pc = "checkPassword"
    /\ IF PasswordTooShort(cfg)
       THEN Fail("CredentialTooWeak")
       ELSE pc' = "checkListeners" /\ UNCHANGED err
    /\ UNCHANGED <<args, iniFile, pwFile, environ, cfg, warned>>
    /\ UNCHANGED outsideConfig

\* only one RPC listener at a time
CheckListeners ==
    /\ pc = "checkListeners"
    /\ IF TooManyListeners(cfg)
       THEN Fail("TooManyListeners")
       ELSE pc' = "validateSubservers" /\ UNCHANGED err
    /\ UNCHANGED <<args, iniFile, pwFile, environ, cfg, warned>>
    /\ UNCHANGED outsideConfig

\* loopd.Validate, pool.Validate, faraday.ValidateConfig and the bitcoin
\* client: the first that fails ends the resolution
ValidateSubservers ==
    /\ pc = "validateSubservers"
    /\ \E failing \in {"none", "loop", "pool", "faraday", "chain"} :
          IF failing # "none"
          THEN Fail("SubserverInvalid")
          ELSE pc' = "done" /\ UNCHANGED err
    /\ UNCHANGED <<args, iniFile, pwFile, environ, cfg, warned>>
    /\ UNCHANGED outsideConfig


(***************************************************************************)
(* Addresses and lndConnectParams.                                         *)
(*                                                                         *)
(* An address is a net.Addr: its network ("tcp" for a *net.TCPAddr), its   *)
(* IP (4 bytes for IPv4, 8 groups of 16 bits for IPv6) and its port.       *)
(***************************************************************************)
DigitChars == <<"0", "1", "2", "3", "4", "5", "6", "7", "8", "9",
                "a", "b", "c", "d", "e", "f">>

RECURSIVE Digits(_, _)
\* strconv's digits of n >= 0 in the base
Digits(n, base) ==
    IF n < base THEN <<DigitChars[n + 1]>>
    ELSE Digits(n \div base, base) \o <<DigitChars[(n % base) + 1]>>

RECURSIVE JoinWith(_, _)
\* strings.Join
JoinWith(parts, sep) ==
    IF parts = <<>> THEN <<>>
    ELSE IF Len(parts) = 1 THEN parts[1]
    ELSE parts[1] \o sep \o JoinWith(Tail(parts), sep)

\* the zero groups of an IPv6 address that follow one another from group i
RECURSIVE ZeroRun(_, _)
ZeroRun(ip, i) ==
    IF i > Len(ip) \/ ip[i] # 0 THEN 0 ELSE 1 + ZeroRun(ip, i + 1)

\* net.IP.String: dotted decimal for IPv4; for IPv6 the groups in
\* hexadecimal, the first longest run of two or more zero groups written "::"
IPString(ip) ==
    IF Len(ip) = 4
    THEN JoinWith([i \in 1..4 |-> Digits(ip[i], 10)], <<".">>)
    ELSE LET best == CHOOSE n \in 0..Len(ip) :
                         /\ \E i \in 1..Len(ip) : ZeroRun(ip, i) = n
                         /\ \A i \in 1..Len(ip) : ZeroRun(ip, i) <= n
             hex(from, to) ==
                 JoinWith([i \in 1..(to - from + 1) |->
                              Digits(ip[from + i - 1], 16)], <<":">>)
         IN IF best < 2 THEN hex(1, Len(ip))
            ELSE LET start == CHOOSE i \in 1..Len(ip) :
                                  /\ ZeroRun(ip, i) = best
                                  /\ \A j \in 1..(i - 1) : ZeroRun(ip, j) < best
                 IN hex(1, start - 1) \o <<":", ":">>
                        \o hex(start + best, Len(ip))

\* net.JoinHostPort: a host with a colon in it goes in square brackets
JoinHostPort(host, port) ==
    IF Contains(host, <<":">>)
    THEN <<"[">> \o host \o <<"]", ":">> \o port
    ELSE host \o <<":">> \o port

\* (*net.TCPAddr).String
AddrString(a) == JoinHostPort(IPString(a.ip), Digits(a.port, 10))

\* the dial address of the in-process lnd: its listen address, a wildcard
\* rewritten to the loopback address
lndDialAddr(listenAddr) ==
    IF Contains(listenAddr, <<"0", ".", "0", ".", "0", ".", "0">>)
    THEN Replace1(listenAddr, <<"0", ".", "0", ".", "0", ".", "0">>,
                  <<"1", "2", "7", ".", "0", ".", "0", ".", "1">>)
    ELSE IF Contains(listenAddr, <<"[", ":", ":", "]">>)
    THEN Replace1(listenAddr, <<"[", ":", ":", "]">>,
                  <<"[", ":", ":", "1", "]">>)
    ELSE listenAddr

\* (c *Config) lndConnectParams: the address to dial, the network and the
\* macaroon path (the TLS certificate path is not followed)
lndConnectParams(c) ==
    IF c.LndMode = ModeRemote
    THEN [addr |-> c.RPCServer,
          network |-> c.network,
          macPath |-> IF c.MacaroonPath # <<>>
                      THEN CleanAndExpandPath(c.MacaroonPath)
                      ELSE Join(CleanAndExpandPath(c.MacaroonDir),
                                <<defaultLndMacaroon>>)]
    ELSE [addr |-> lndDialAddr(AddrString(c.RPCListeners[1])),
          network |-> c.network,
          macPath |-> <<"lnd", "admin.macaroon">>]

\* lndConnectParams has not been called
noDial == [addr |-> <<>>, network |-> "", macPath |-> <<>>]

\* the gateway asks for the parameters of its connection to lnd
LndConnectParams ==
    /\ pc = "connect"
    /\ dial' = lndConnectParams(cfg)
    /\ pc' = "connected"
    /\ UNCHANGED <<args, iniFile, pwFile, environ, cfg, warned, err>>
    /\ UNCHANGED <<tlsVars, lisVars>>

(***************************************************************************)
(* buildTLSConfigForHttp2.                                                 *)
(***************************************************************************)
\* lnrpc.FileExists
FileExists(file) == file # 0

\* ShouldGenerate generating as soon as one of the two files is missing
ShouldGenerate_EitherMissing(cert, key) ==
    ~FileExists(cert) \/ ~FileExists(key)

\* whether the remote-mode case generates a self-signed pair
ShouldGenerate(cert, key) == ~FileExists(cert) /\ ~FileExists(key)

\* cert.GenCertPair: it writes the certificate, then the key, and can fail
\* before the first or between the two
GenOutcomes == {"ok", "failed", "failedAfterCert"}

\* cert.LoadCert: both files exist and are a pair
LoadsAsPair(cert, key) == FileExists(cert) /\ FileExists(key) /\ cert = key

\* no call of buildTLSConfigForHttp2 yet
noTLSCall == [result |-> "none", loaded |-> 0, generated |-> FALSE]

\* the state of the TLS provisioning before it is used
NoTLS ==
    /\ certFile = 0
    /\ keyFile = 0
    /\ lndPairOK = TRUE
    /\ gens = 0
    /\ tlsCalls = 0
    /\ tlsLast = noTLSCall
    /\ acme = [pending |-> 0, serving |-> FALSE, errors |-> 0]

\* buildTLSConfigForHttp2 taking the self-signed case in either mode
buildTLSConfigForHttp2_SelfSignedInAnyMode(c, cert, key, lndOK, next, gen, h2ok) ==
    LET done(ce, ke, generated, spawned, loaded, e) ==
            [cert |-> ce, key |-> ke, generated |-> generated,
             spawned |-> spawned, loaded |-> loaded, result |-> e]
        h2(ce, ke, generated, spawned, loaded) ==
            IF h2ok THEN done(ce, ke, generated, spawned, loaded, "ok")
            ELSE done(ce, ke, generated, spawned, 0, "H2SetupFailed")
    IN
    IF c.LetsEncrypt
    THEN IF c.LetsEncryptHost = ""
         THEN done(cert, key, FALSE, FALSE, 0, "MissingACMEHost")
         ELSE h2(cert, key, FALSE, TRUE, -2)
    ELSE IF c.LndMode \in ModeChoices
    THEN LET generate == ShouldGenerate(cert, key)
             ce == IF generate /\ gen \in {"ok", "failedAfterCert"}
                   THEN next ELSE cert
             ke == IF generate /\ gen = "ok" THEN next ELSE key
             generated == generate /\ gen = "ok"
         IN IF generate /\ gen # "ok"
            THEN done(ce, ke, FALSE, FALSE, 0, "CertGenerationFailed")
            ELSE IF ~LoadsAsPair(ce, ke)
            THEN done(ce, ke, generated, FALSE, 0, "CertLoadFailed")
            ELSE h2(ce, ke, generated, FALSE, ce)
    ELSE IF ~lndOK
    THEN done(cert, key, FALSE, FALSE, 0, "CertLoadFailed")
    ELSE h2(cert, key, FALSE, FALSE, -3)

\* buildTLSConfigForHttp2(config): the two files as it leaves them, whether
\* it generated a pair and started a challenge listener, the certificate of
\* the TLS configuration it returns (-2 for the Let's Encrypt manager's, -3
\* for lnd's) and its error
buildTLSConfigForHttp2(c, cert, key, lndOK, next, gen, h2ok) ==
    LET done(ce, ke, generated, spawned, loaded, e) ==
            [cert |-> ce, key |-> ke, generated |-> generated,
             spawned |-> spawned, loaded |-> loaded, result |-> e]
        h2(ce, ke, generated, spawned, loaded) ==
            IF h2ok THEN done(ce, ke, generated, spawned, loaded, "ok")
            ELSE done(ce, ke, generated, spawned, 0, "H2SetupFailed")
    IN
    IF c.LetsEncrypt
    THEN IF c.LetsEncryptHost = ""
         THEN done(cert, key, FALSE, FALSE, 0, "MissingACMEHost")
         ELSE h2(cert, key, FALSE, TRUE, -2)
    ELSE IF c.LndMode = ModeRemote
    THEN LET generate == ShouldGenerate(cert, key)
             ce == IF generate /\ gen \in {"ok", "failedAfterCert"}
                   THEN next ELSE cert
             ke == IF generate /\ gen = "ok" THEN next ELSE key
             generated == generate /\ gen = "ok"
         IN IF generate /\ gen # "ok"
            THEN done(ce, ke, FALSE, FALSE, 0, "CertGenerationFailed")
            ELSE IF ~LoadsAsPair(ce, ke)
            THEN done(ce, ke, generated, FALSE, 0, "CertLoadFailed")
            ELSE h2(ce, ke, generated, FALSE, ce)
    ELSE IF ~lndOK
    THEN done(cert, key, FALSE, FALSE, 0, "CertLoadFailed")
    ELSE h2(cert, key, FALSE, FALSE, -3)

\* the server builds its TLS configuration
BuildTLSConfigForHttp2 ==
    /\ pc = "serve"
    /\ tlsCalls < MaxCalls
    /\ ShouldGenerate(certFile, keyFile) => gens < MaxGen
    /\ \E gen \in GenOutcomes, h2ok \in BOOLEAN :
          LET r == buildTLSConfigForHttp2(cfg, certFile, keyFile, lndPairOK,
                                          gens + 1, gen, h2ok)
          IN /\ certFile' = r.cert
             /\ keyFile' = r.key
             /\ gens' = IF r.cert = gens + 1 THEN gens + 1 ELSE gens
             /\ tlsLast' = [result |-> r.result, loaded |-> r.loaded,
                            generated |-> r.generated]
             /\ acme' = IF r.spawned
                        THEN [acme EXCEPT !.pending = @ + 1]
                        ELSE acme
    /\ tlsCalls' = tlsCalls + 1
    /\ UNCHANGED <<cfgVars, dialVars, lisVars, lndPairOK>>

\* a challenge listener's goroutine: http.ListenAndServe binds the challenge
\* address or fails, and a failure is only logged
AcmeResponder ==
    /\ pc = "serve"
    /\ acme.pending > 0
    /\ \E bound \in BOOLEAN :
          acme' = IF bound /\ ~acme.serving
                  THEN [acme EXCEPT !.pending = @ - 1, !.serving = TRUE]
                  ELSE [acme EXCEPT !.pending = @ - 1, !.errors = @ + 1]
    /\ UNCHANGED <<cfgVars, dialVars, lisVars, certFile, keyFile, lndPairOK, gens,
                   tlsCalls, tlsLast>>

\* the operator puts a certificate or a key of their own where there is none
OperatorPlacesFile ==
    /\ pc = "serve"
    /\ \/ certFile = 0 /\ certFile' = -1 /\ keyFile' \in {keyFile, -1}
       \/ keyFile = 0 /\ keyFile' = -1 /\ certFile' = certFile
    /\ UNCHANGED <<cfgVars, dialVars, lisVars, lndPairOK, gens, tlsCalls, tlsLast, acme>>

\* the operator removes the certificate and the key
OperatorRemovesFiles ==
    /\ pc = "serve"
    /\ FileExists(certFile) \/ FileExists(keyFile)
    /\ certFile' = 0
    /\ keyFile' = 0
    /\ UNCHANGED <<cfgVars, dialVars, lisVars, lndPairOK, gens, tlsCalls, tlsLast, acme>>

(***************************************************************************)
(* onDemandListener.                                                       *)
(***************************************************************************)
\* net.IP.To4: a 4-byte address, or the IPv4-mapped ::ffff:a.b.c.d
To4(ip) ==
    \/ Len(ip) = 4
    \/ /\ Len(ip) = 8
       /\ \A i \in 1..5 : ip[i] = 0
       /\ ip[6] = 65535

\* parseNetwork(addr)
parseNetwork(addr) ==
    IF addr.net = "tcp"
    THEN IF To4(addr.ip) THEN "tcp4" ELSE "tcp6"
    ELSE addr.net

\* the path of the Unix socket of the model
unixSocketName == <<"/", "s">>

\* addr.String()
NetAddrString(addr) ==
    IF addr.net = "tcp" THEN AddrString(addr) ELSE unixSocketName

\* Addr() answering with the address of the bound socket
Addr_OfTheSocket(addr, l, socks) ==
    IF l = 0 THEN addr ELSE [addr EXCEPT !.port = socks[l].port]

\* Addr()
Addr(addr, l, socks) == addr

\* no address, no Accept() yet
noAddr == [net |-> "none", ip |-> <<>>, port |-> 0]
noAccept == [by |-> 0, socket |-> 0, result |-> "none"]

\* the listener before it is used
NoListener ==
    /\ requested = noAddr
    /\ lAddr = noAddr
    /\ lis = 0
    /\ sockets = <<>>
    /\ attempts = <<>>
    /\ calls = 0
    /\ tpc = <<>>
    /\ tcall = <<>>
    /\ addrRet = noAddr
    /\ lastAccept = noAccept
    /\ lastClose = "none"
    /\ crashed = FALSE

\* Accept() is entered and tests l.lis == nil
AcceptBegin(t) ==
    /\ ~crashed
    /\ tpc[t] = "idle"
    /\ calls < MaxCalls
    /\ calls' = calls + 1
    /\ tcall' = [tcall EXCEPT ![t] = calls + 1]
    /\ tpc' = [tpc EXCEPT ![t] = IF lis = 0 THEN "listen" ELSE "accept"]
    /\ UNCHANGED <<cfgVars, dialVars, tlsVars, requested, lAddr, lis, sockets,
                   attempts, addrRet, lastAccept, lastClose, crashed>>

\* l.lis, err = net.Listen(parseNetwork(l.addr), l.addr.String()): the
\* result is stored in l.lis whether or not the call bound, and the kernel
\* picks the port if port 0 was asked for
AcceptListen(t) ==
    /\ ~crashed
    /\ tpc[t] = "listen"
    /\ \E bound \in BOOLEAN :
          /\ bound => \A i \in 1..Len(sockets) :
                         \/ ~sockets[i].open
                         \/ sockets[i].address # NetAddrString(lAddr)
                         \/ lAddr.net = "tcp" /\ lAddr.port = 0
          /\ attempts' = Append(attempts, [by |-> tcall[t], ok |-> bound])
          /\ IF bound
             THEN /\ sockets' = Append(sockets,
                         [network |-> parseNetwork(lAddr),
                          address |-> NetAddrString(lAddr),
                          port |-> IF lAddr.net = "tcp" /\ lAddr.port = 0
                                   THEN 49152 + Len(sockets)
                                   ELSE lAddr.port,
                          by |-> tcall[t],
                          open |-> TRUE])
                  /\ lis' = Len(sockets) + 1
                  /\ tpc' = [tpc EXCEPT ![t] = "accept"]
                  /\ UNCHANGED lastAccept
             ELSE /\ lis' = 0
                  /\ tpc' = [tpc EXCEPT ![t] = "idle"]
                  /\ lastAccept' = [by |-> tcall[t], socket |-> 0,
                                    result |-> "listenError"]
                  /\ UNCHANGED sockets
    /\ UNCHANGED <<cfgVars, dialVars, tlsVars, requested, lAddr, calls, tcall,
                   addrRet, lastClose, crashed>>

\* return l.lis.Accept()
AcceptDo(t) ==
    /\ ~crashed
    /\ tpc[t] = "accept"
    /\ tpc' = [tpc EXCEPT ![t] = "idle"]
    /\ IF lis = 0
       THEN /\ crashed' = TRUE
            /\ UNCHANGED lastAccept
       ELSE /\ \E result \in {"conn", "acceptError"} :
                  /\ ~sockets[lis].open => result = "acceptError"
                  /\ lastAccept' = [by |-> tcall[t], socket |-> lis,
                                    result |-> result]
            /\ UNCHANGED crashed
    /\ UNCHANGED <<cfgVars, dialVars, tlsVars, requested, lAddr, lis, sockets,
                   attempts, calls, tcall, addrRet, lastClose>>

\* Addr()
AddrCall(t) ==
    /\ ~crashed
    /\ tpc[t] = "idle"
    /\ addrRet' = Addr(lAddr, lis, sockets)
    /\ UNCHANGED <<cfgVars, dialVars, tlsVars, requested, lAddr, lis, sockets,
                   attempts, calls, tpc, tcall, lastAccept, lastClose,
                   crashed>>

\* Close(): return l.lis.Close(), which dereferences l.lis
CloseCall(t) ==
    /\ ~crashed
    /\ tpc[t] = "idle"
    /\ IF lis = 0
       THEN /\ crashed' = TRUE
            /\ UNCHANGED <<sockets, lastClose>>
       ELSE /\ lastClose' = IF sockets[lis].open THEN "nil" ELSE "closedError"
            /\ sockets' = [sockets EXCEPT ![lis].open = FALSE]
            /\ UNCHANGED crashed
    /\ UNCHANGED <<cfgVars, dialVars, tlsVars, requested, lAddr, lis, attempts,
                   calls, tpc, tcall, addrRet, lastAccept>>

(***************************************************************************)
(* The inputs of the model.                                                *)
(***************************************************************************)
\* the layers that leave a field alone or set it to one of the values
Opt(field, values) == {<<>>} \cup {[f \in {field} |-> v] : v \in values}

\* a macaroon directory and a macaroon file of the operator's
customMacDir == <<"srv", "macaroons">>
customMacPath == <<"srv", "lit.macaroon">>
\* a lit directory of the operator's, and the default one written with "~"
customLitDir == <<"srv", "lit">>
tildeLitDir == <<"~", ".", ".lit">>

\* passwords: a run of one character, bare or with white space around it
Passwords ==
    {Rep(c, n) : c \in {"a", "U+00E9"}, n \in 0..MaxPwLen}
        \cup {<<" ">> \o Rep("a", n) \o <<"\t", " ">> :
                 n \in (uiPasswordMinLength - 1)..uiPasswordMinLength}

\* a password that passes the check of its length
goodPassword == [UIPassword |-> Rep("a", uiPasswordMinLength)]

\* command lines that vary the mode, the network and the macaroon options
MacaroonArgs ==
    {m @@ n @@ d @@ p @@ goodPassword :
        m \in Opt("LndMode", ModeChoices),
        n \in Opt("Network", Networks),
        d \in Opt("MacaroonDir", {customMacDir, defaultRemoteLndMacDir}),
        p \in Opt("MacaroonPath", {customMacPath})}

\* command lines that vary the directories and the Let's Encrypt options
DirArgs ==
    {m @@ l @@ e @@ goodPassword :
        m \in Opt("LndMode", ModeChoices),
        l \in Opt("LitDir", {customLitDir, tildeLitDir}),
        e \in {<<>>, [LetsEncrypt |-> TRUE],
               [LetsEncrypt |-> TRUE, LetsEncryptHost |-> "example.com"]}}

\* command lines the flag parser rejects, and the version query
OddArgs ==
    {x @@ goodPassword :
        x \in {[ShowVersion |-> TRUE], [nosuchflag |-> TRUE],
               [Network |-> "bogus"], [LndMode |-> "bogus"]}}

\* command lines that vary the password given directly
PasswordArgs ==
    {m @@ w : m \in Opt("LndMode", ModeChoices),
              w \in Opt("UIPassword", Passwords)}

\* the configuration files of the resolution as a whole
IniFiles ==
    {[state |-> "absent", layer |-> <<>>],
     [state |-> "malformed", layer |-> <<>>]}
        \cup {[state |-> "present", layer |-> y] :
                 y \in {<<>>,
                        [Network |-> "testnet", LndMode |-> ModeIntegrated],
                        [MacaroonPath |-> customMacPath,
                         UIPassword |-> Rep("a", uiPasswordMinLength)]}}

\* the password file and the environment variable of the resolution as a
\* whole: neither named, the file named, the variable named
SecretSources ==
    {[names |-> <<>>,
      file |-> [ok |-> FALSE, content |-> <<>>], env |-> <<>>],
     [names |-> [UIPasswordFile |-> <<"f">>],
      file |-> [ok |-> TRUE, content |-> Rep("a", uiPasswordMinLength) \o <<" ">>],
      env |-> <<>>],
     [names |-> [UIPasswordEnv |-> <<"E">>],
      file |-> [ok |-> FALSE, content |-> <<>>],
      env |-> Rep("a", uiPasswordMinLength + 1)]}

(***************************************************************************)
(* The resolution as a whole.                                              *)
(***************************************************************************)
Init ==
    /\ \E a \in MacaroonArgs \cup DirArgs \cup OddArgs \cup PasswordArgs,
          src \in SecretSources :
          /\ a \notin PasswordArgs => src.names = <<>>
          /\ args = a @@ src.names
          /\ pwFile = src.file
          /\ environ = src.env
    /\ iniFile \in IniFiles
    /\ cfg = defaultConfig
    /\ warned = FALSE
    /\ pc = "preParse"
    /\ err = NoErr
    /\ dial = noDial
    /\ NoTLS
    /\ NoListener

Next ==
    \/ PreParse
    \/ LoadConfigFile
    \/ ValidateLit
    \/ ReadUIPassword
    \/ CheckPassword
    \/ CheckListeners
    \/ ValidateSubservers

Spec == Init /\ [][Next]_vars


(***************************************************************************)
(* The password resolution on its own: readUIPassword applied to a Config  *)
(* that has passed loadConfigFile, over all three sources.                 *)
(***************************************************************************)
\* longest run of one character in a value of a password source
MaxCredLen == 2

\* the values of a password source: a run of one character, bare or with
\* white space around it
CredStrings ==
    {l \o Rep(c, n) \o r :
        l \in {<<>>, <<" ">>}, r \in {<<>>, <<"\t">>},
        c \in {"a", "U+00E9"}, n \in 0..MaxCredLen}

\* the names of a password file or an environment variable: none, a blank
\* one, a name with white space before it
SourceNames == {<<>>, <<" ">>, <<" ", "a">>}

InitCred ==
    /\ \E d \in CredStrings, f \in SourceNames, e \in SourceNames :
          args = [UIPassword |-> d, UIPasswordFile |-> f, UIPasswordEnv |-> e]
    /\ pwFile \in {[ok |-> FALSE, content |-> <<>>]}
                      \cup [ok : {TRUE}, content : CredStrings]
    /\ environ \in CredStrings
    /\ iniFile = [state |-> "absent", layer |-> <<>>]
    /\ cfg = AdjustLetsEncryptDir(
                 loadConfigFile(Overlay(defaultConfig, args), args, iniFile,
                                TRUE, [ok |-> FALSE, listeners |-> 0,
                                       net |-> "none"], "none").cfg)
    /\ warned = TRUE
    /\ pc = "readUIPassword"
    /\ err = NoErr
    /\ dial = noDial
    /\ NoTLS
    /\ NoListener

NextCred == ReadUIPassword

SpecCred == InitCred /\ [][NextCred]_vars

(***************************************************************************)
(* Properties of the password resolution (SpecCred).                       *)
(***************************************************************************)
\* a source is set to a valid non-blank value
DirectValid == TrimSpace(args.UIPassword) # <<>>
FileNamed == TrimSpace(args.UIPasswordFile) # <<>>
EnvNamed == TrimSpace(args.UIPasswordEnv) # <<>>
FileValid == FileNamed /\ pwFile.ok /\ TrimSpace(pwFile.content) # <<>>
EnvValid == EnvNamed /\ TrimSpace(environ) # <<>>

\* readUIPassword has returned
Resolved == pc # "readUIPassword"

\* C1: when every source is either not set or set to a valid non-blank
\* value, and at least one is set, the resolution succeeds with the trimmed
\* value of the set source of the highest priority: the direct value, then
\* the file, then the environment variable.
C1_HighestPriorityWins ==
    (/\ Resolved
     /\ FileNamed => FileValid
     /\ EnvNamed => EnvValid
     /\ DirectValid \/ FileValid \/ EnvValid)
        => /\ err = NoErr
           /\ cfg.UIPassword =
                 IF DirectValid THEN TrimSpace(args.UIPassword)
                 ELSE IF FileValid THEN TrimSpace(pwFile.content)
                 ELSE TrimSpace(environ)

\* the file wins over the environment variable, and its content is trimmed
C1_Witness ==
    /\ Resolved
    /\ ~DirectValid /\ FileValid /\ EnvValid
    /\ TrimSpace(pwFile.content) # TrimSpace(environ)
    /\ pwFile.content # TrimSpace(pwFile.content)
    /\ cfg.UIPassword = TrimSpace(pwFile.content)

\* what each source yields, as C2 reads the resolution: the blank string if
\* the source is not named
DirectYield == TrimSpace(args.UIPassword)
FileYield == IF FileNamed /\ pwFile.ok THEN TrimSpace(pwFile.content) ELSE <<>>
EnvYield == IF EnvNamed THEN TrimSpace(environ) ELSE <<>>

\* C2 as stated: the first source that yields a non-blank value wins, also
\* when a source before it is named and yields a blank one, and no
\* resolution succeeds with a blank password.
C2_FirstNonBlankWins ==
    (Resolved /\ (FileNamed => pwFile.ok))
        => /\ (DirectYield # <<>> \/ FileYield # <<>> \/ EnvYield # <<>>)
                 => /\ err = NoErr
                    /\ cfg.UIPassword =
                          IF DirectYield # <<>> THEN DirectYield
                          ELSE IF FileYield # <<>> THEN FileYield
                          ELSE EnvYield
           /\ err = NoErr => cfg.UIPassword # <<>>

\* C2 as amended: the first source that is named (a direct value, a file name
\* or a variable name that is not blank after trimming) is the only one
\* consulted.  A blank direct value is passed over; a named file is never
\* passed over (its trimmed content is the password, blank or not, and if it
\* cannot be read the resolution fails); a named variable is consulted only
\* if no file is named (its trimmed value is the password unless the value
\* is the empty string).
C2_FirstNamedWins ==
    Resolved
        => IF DirectValid
           THEN err = NoErr /\ cfg.UIPassword = TrimSpace(args.UIPassword)
           ELSE IF FileNamed
           THEN IF pwFile.ok
                THEN err = NoErr /\ cfg.UIPassword = TrimSpace(pwFile.content)
                ELSE err = "FileUnreadable"
           ELSE IF EnvNamed
           THEN IF environ = <<>>
                THEN err = "EnvVarEmpty"
                ELSE err = NoErr /\ cfg.UIPassword = TrimSpace(environ)
           ELSE err = "NoCredentialConfigured"

\* a named file with a blank content hides a valid environment variable, and
\* the resolution succeeds with the blank password
C2_Witness ==
    /\ Resolved
    /\ ~DirectValid /\ FileNamed /\ pwFile.ok /\ EnvValid
    /\ TrimSpace(pwFile.content) = <<>>
    /\ err = NoErr
    /\ cfg.UIPassword = <<>>

(***************************************************************************)
(* Properties of the resolution as a whole (Spec).                         *)
(***************************************************************************)
\* the configuration as merged from the defaults, the configuration file and
\* the command line, before any mode-dependent rewriting
Merged ==
    Overlay(IF iniFile.state = "present"
            THEN Overlay(defaultConfig, iniFile.layer)
            ELSE defaultConfig, args)

\* loadConfigFile has returned without an error
PastLoad ==
    pc \in {"validateLit", "readUIPassword", "checkPassword",
            "checkListeners", "validateSubservers", "done"}

\* the check of the password's length has passed
PastPasswordCheck == pc \in {"checkListeners", "validateSubservers", "done"}

\* the macaroon directory of a network
NetworkMacDir(n) ==
    lndDefaultConfig.DataDir \o <<"chain", "bitcoin", n>>

\* C3 as stated: a password of fewer than 8 characters never passes the check
\* of its length, so a resolved configuration has a password of at least 8
\* characters, and the check fails only passwords of fewer than 8.
C3_MinLengthInCharacters ==
    /\ PastPasswordCheck
          => cfg.UIPassword # <<>> /\ Len(cfg.UIPassword) >= 8
    /\ err = "CredentialTooWeak" => Len(cfg.UIPassword) < 8

\* C4: in remote mode, with the macaroon directory left at its default, the
\* validated macaroon directory is the directory of the network, with the
\* network's name as a segment, if the network is not mainnet, and is left
\* alone if it is.
C4_MacaroonDirFollowsNetwork ==
    (/\ PastLoad
     /\ cfg.LndMode = "remote"
     /\ Merged.MacaroonDir = defaultRemoteLndMacDir)
        => IF cfg.Network # "mainnet"
           THEN /\ cfg.MacaroonDir = NetworkMacDir(cfg.Network)
                /\ \E i \in DOMAIN cfg.MacaroonDir :
                      cfg.MacaroonDir[i] = cfg.Network
           ELSE cfg.MacaroonDir = Merged.MacaroonDir

C4_Witness ==
    /\ pc = "done"
    /\ cfg.LndMode = "remote"
    /\ Merged.MacaroonDir = defaultRemoteLndMacDir
    /\ cfg.Network = "regtest"
    /\ cfg.MacaroonDir = NetworkMacDir("regtest")

\* the macaroon path is set and the macaroon directory is not the default
BothSet(c) == c.MacaroonPath # <<>> /\ c.MacaroonDir # defaultRemoteLndMacDir

\* C5 as stated: in whatever mode, a configuration with both the macaroon
\* path and another macaroon directory than the default does not get past
\* the validation of the mode.
C5_ConflictInEveryMode == BothSet(Merged) => ~PastLoad

\* C5 as amended: in remote mode, a configuration with both the macaroon path
\* and another macaroon directory than the default fails: with
\* ConflictingMacaroonConfig, unless the configuration file's syntax or the
\* creation of the lit directory failed it before.
C5_ConflictInRemoteMode ==
    (/\ Merged.LndMode = "remote"
     /\ BothSet(Merged)
     /\ pc \notin {"preParse", "loadConfigFile", "exit"})
        => /\ pc = "failed"
           /\ err \in {"ConflictingMacaroonConfig", "ConfigSyntaxError",
                       "DirectoryCreateFailed"}
           /\ (~FlagsValid(args) \/ iniFile.state = "malformed")
                 <=> err = "ConfigSyntaxError"

C5_Witness ==
    /\ Merged.LndMode = "remote"
    /\ BothSet(Merged)
    /\ pc = "failed"
    /\ err = "ConflictingMacaroonConfig"

\* C6 as stated: no resolved remote-mode configuration has both the macaroon
\* path set and a macaroon directory that is not the default.
C6_NeverBothAfterResolution ==
    (pc = "done" /\ cfg.LndMode = "remote") => ~BothSet(cfg)

\* C6 as amended: in a remote-mode configuration that passed the validation
\* with the macaroon path set, the macaroon directory was configured as the
\* default and holds the directory of the network: the default for mainnet,
\* the rewritten, non-default one for every other network.
C6_OnlyTheRewriteWithPath ==
    (PastLoad /\ cfg.LndMode = "remote" /\ cfg.MacaroonPath # <<>>)
        => /\ Merged.MacaroonDir = defaultRemoteLndMacDir
           /\ cfg.MacaroonDir = NetworkMacDir(cfg.Network)
           /\ BothSet(cfg) <=> cfg.Network # "mainnet"

C6_Witness ==
    /\ pc = "done"
    /\ cfg.LndMode = "remote"
    /\ cfg.Network = "testnet"
    /\ cfg.MacaroonPath = customMacPath
    /\ cfg.MacaroonDir = NetworkMacDir("testnet")
    /\ BothSet(cfg)

\* C9: in integrated mode the check of the listeners fails a configuration
\* with two or more RPC listeners with TooManyListeners, and passes one with
\* none or one on to the validators of the sub-daemons.
C9_ListenerCheck ==
    [][(pc = "checkListeners" /\ cfg.LndMode = "integrated")
          => IF Len(cfg.RPCListeners) >= 2
             THEN pc' = "failed" /\ err' = "TooManyListeners"
             ELSE pc' = "validateSubservers" /\ err' = NoErr]_vars

C9_Witness ==
    /\ cfg.LndMode = "integrated"
    /\ Len(cfg.RPCListeners) = 2
    /\ pc = "failed"
    /\ err = "TooManyListeners"


(***************************************************************************)
(* The dial parameters on their own: lndConnectParams applied to a         *)
(* validated Config, over the listen addresses of the in-process lnd.      *)
(***************************************************************************)
\* the bytes of the IPv4 addresses and the ports of the model
Octets == {0, 1, 10, 192}
Ports == {10009, 443}

\* the IPv6 addresses of the model: "::", "::1", "fe80::1", "1::"
IPv6s ==
    {<<0, 0, 0, 0, 0, 0, 0, 0>>, <<0, 0, 0, 0, 0, 0, 0, 1>>,
     <<65152, 0, 0, 0, 0, 0, 0, 1>>, <<1, 0, 0, 0, 0, 0, 0, 0>>}

ListenAddrs ==
    [net : {"tcp"},
     ip : {<<a, b, c, d>> : a \in Octets, b \in Octets, c \in Octets,
                            d \in Octets} \cup IPv6s,
     port : Ports]

InitDial ==
    /\ args = <<>>
    /\ iniFile = [state |-> "absent", layer |-> <<>>]
    /\ pwFile = [ok |-> FALSE, content |-> <<>>]
    /\ environ = <<>>
    /\ \E mode \in ModeChoices, a \in ListenAddrs, p \in {<<>>, customMacPath} :
          /\ mode = ModeRemote => a = [net |-> "tcp", ip |-> <<0, 0, 0, 0>>,
                                       port |-> 10009]
          /\ mode = ModeIntegrated => p = <<>>
          /\ cfg = [defaultConfig EXCEPT
                       !.UIPassword = goodPassword.UIPassword,
                       !.LndMode = mode,
                       !.MacaroonPath = p,
                       !.RPCListeners = IF mode = ModeIntegrated THEN <<a>>
                                        ELSE <<>>,
                       !.Bitcoin = IF mode = ModeIntegrated THEN "mainnet"
                                   ELSE "none",
                       !.network = "mainnet"]
    /\ warned = TRUE
    /\ pc = "connect"
    /\ err = NoErr
    /\ dial = noDial
    /\ NoTLS
    /\ NoListener

NextDial == LndConnectParams

SpecDial == InitDial /\ [][NextDial]_vars

\* the address a listener is dialled at according to C7
LoopbackOf(a) ==
    IF a.ip = <<0, 0, 0, 0>>
    THEN AddrString([a EXCEPT !.ip = <<127, 0, 0, 1>>])
    ELSE IF a.ip = <<0, 0, 0, 0, 0, 0, 0, 0>>
    THEN AddrString([a EXCEPT !.ip = <<0, 0, 0, 0, 0, 0, 0, 1>>])
    ELSE AddrString(a)

\* C7 as stated: the dial address of the in-process lnd is its listen
\* address with the host 0.0.0.0 replaced by 127.0.0.1 and the host [::] by
\* [::1], the port kept, and is the listen address unchanged for every host
\* that is not a wildcard.
C7_LoopbackRewrite ==
    (pc = "connected" /\ cfg.LndMode = "integrated")
        => dial.addr = LoopbackOf(cfg.RPCListeners[1])

\* the part of C7 that holds: the two wildcard hosts are rewritten
C7_WildcardsRewritten ==
    (/\ pc = "connected"
     /\ cfg.LndMode = "integrated"
     /\ cfg.RPCListeners[1].ip \in {<<0, 0, 0, 0>>, <<0, 0, 0, 0, 0, 0, 0, 0>>})
        => dial.addr = LoopbackOf(cfg.RPCListeners[1])


(***************************************************************************)
(* The TLS provisioning on its own: buildTLSConfigForHttp2 called again    *)
(* and again for a resolved Config, the operator changing the files in     *)
(* between.                                                                *)
(***************************************************************************)
InitTLS ==
    /\ args = <<>>
    /\ iniFile = [state |-> "absent", layer |-> <<>>]
    /\ pwFile = [ok |-> FALSE, content |-> <<>>]
    /\ environ = <<>>
    /\ \E mode \in ModeChoices, le \in BOOLEAN, host \in {"", "example.com"} :
          cfg = [defaultConfig EXCEPT
                    !.UIPassword = goodPassword.UIPassword,
                    !.LndMode = mode,
                    !.LetsEncrypt = le,
                    !.LetsEncryptHost = host,
                    !.RPCListeners = IF mode = ModeIntegrated
                                     THEN <<defaultRPCAddr>> ELSE <<>>,
                    !.Bitcoin = IF mode = ModeIntegrated THEN "mainnet"
                                ELSE "none",
                    !.network = "mainnet"]
    /\ warned = TRUE
    /\ pc = "serve"
    /\ err = NoErr
    /\ dial = noDial
    /\ certFile = 0
    /\ keyFile = 0
    /\ lndPairOK \in BOOLEAN
    /\ gens = 0
    /\ tlsCalls = 0
    /\ tlsLast = noTLSCall
    /\ acme = [pending |-> 0, serving |-> FALSE, errors |-> 0]
    /\ NoListener

NextTLS ==
    \/ BuildTLSConfigForHttp2
    \/ AcmeResponder
    \/ OperatorPlacesFile
    \/ OperatorRemovesFiles

SpecTLS == InitTLS /\ [][NextTLS]_vars

\* a call of buildTLSConfigForHttp2 with the self-signed strategy
SelfSignedCall ==
    /\ tlsCalls' = tlsCalls + 1
    /\ cfg.LndMode = "remote"
    /\ ~cfg.LetsEncrypt

\* C8: a call with the self-signed strategy never changes a certificate or
\* key file that exists, and generates nothing if one of the two exists; a
\* call that finds neither and succeeds has written both from one new
\* generation and loaded it; a call that finds a generated pair loads that
\* pair and leaves both files as they are.
C8_SelfSignedIdempotent ==
    [][SelfSignedCall
          => /\ certFile # 0 => certFile' = certFile
             /\ keyFile # 0 => keyFile' = keyFile
             /\ (certFile # 0 \/ keyFile # 0)
                   => gens' = gens /\ ~tlsLast'.generated
             /\ (certFile = 0 /\ keyFile = 0 /\ tlsLast'.result = "ok")
                   => /\ gens' = gens + 1
                      /\ certFile' = gens'
                      /\ keyFile' = gens'
                      /\ tlsLast'.generated
                      /\ tlsLast'.loaded = gens'
             /\ (certFile > 0 /\ keyFile = certFile)
                   => /\ tlsLast'.result \in {"ok", "H2SetupFailed"}
                      /\ tlsLast'.result = "ok" => tlsLast'.loaded = certFile
                      /\ certFile' = certFile
                      /\ keyFile' = keyFile]_vars

\* the second of two calls has loaded the pair the first one generated
C8_Witness ==
    /\ cfg.LndMode = "remote"
    /\ ~cfg.LetsEncrypt
    /\ tlsCalls = 2
    /\ gens = 1
    /\ certFile = 1
    /\ keyFile = 1
    /\ tlsLast = [result |-> "ok", loaded |-> 1, generated |-> FALSE]


(***************************************************************************)
(* One onDemandListener and one caller: any sequence of Addr() and         *)
(* Accept() calls.                                                         *)
(***************************************************************************)
ListenerAddrs ==
    [net : {"tcp"},
     ip : {<<0, 0, 0, 0>>, <<127, 0, 0, 1>>, <<0, 0, 0, 0, 0, 0, 0, 1>>,
           <<0, 0, 0, 0, 0, 65535, 32512, 1>>},
     port : {0, 8443}]
    \cup {[net |-> "unix", ip |-> <<>>, port |-> 0]}

\* a new onDemandListener and the goroutines that will call it
NewListener(callers) ==
    /\ args = <<>>
    /\ iniFile = [state |-> "absent", layer |-> <<>>]
    /\ pwFile = [ok |-> FALSE, content |-> <<>>]
    /\ environ = <<>>
    /\ cfg = defaultConfig
    /\ warned = TRUE
    /\ pc = "serve"
    /\ err = NoErr
    /\ dial = noDial
    /\ NoTLS
    /\ requested \in ListenerAddrs
    /\ lAddr = requested
    /\ lis = 0
    /\ sockets = <<>>
    /\ attempts = <<>>
    /\ calls = 0
    /\ tpc = [t \in 1..callers |-> "idle"]
    /\ tcall = [t \in 1..callers |-> 0]
    /\ addrRet = noAddr
    /\ lastAccept = noAccept
    /\ lastClose = "none"
    /\ crashed = FALSE

InitListener == NewListener(1)

NextListener ==
    \/ \E t \in DOMAIN tpc : AcceptBegin(t)
    \/ \E t \in DOMAIN tpc : AcceptListen(t)
    \/ \E t \in DOMAIN tpc : AcceptDo(t)
    \/ \E t \in DOMAIN tpc : AddrCall(t)

SpecListener == InitListener /\ [][NextListener]_vars

\* Addr() has only ever returned the requested address
AddrIsRequested == addrRet \in {noAddr, requested}

\* nothing is bound, and no bind tried, before the first Accept()
NoBindBeforeAccept == calls = 0 => attempts = <<>> /\ sockets = <<>> /\ lis = 0

\* C10 as stated: Addr() returns the requested address, nothing is bound
\* before the first Accept(), and only the first Accept() call binds.
C10_OnlyTheFirstAcceptBinds ==
    /\ AddrIsRequested
    /\ NoBindBeforeAccept
    /\ \A i \in 1..Len(attempts) : attempts[i].ok => attempts[i].by = 1

\* C10: Addr() returns the requested address, nothing is bound before the
\* first Accept(), at most one Accept() call binds and none tries to after
\* it, the listener it bound stays the listener of every later Accept(),
\* and an Accept() whose bind failed leaves the listener unbound.
C10_BindOnceOnDemand ==
    /\ AddrIsRequested
    /\ NoBindBeforeAccept
    /\ Len(sockets) <= 1
    /\ \A i \in 1..Len(attempts) :
          /\ attempts[i].ok => i = Len(attempts)
          /\ attempts[i].by >= 1
    /\ lis = Len(sockets)
    /\ (lis # 0) = (\E i \in 1..Len(attempts) : attempts[i].ok)
    /\ lastAccept.result \in {"conn", "acceptError"}
          => /\ lastAccept.socket = 1
             /\ sockets[1].by <= lastAccept.by
    /\ ~crashed

\* a later Accept() has returned a connection of the listener the first
\* Accept() bound to port 0, and Addr() has been asked since
C10_Witness ==
    /\ requested.net = "tcp"
    /\ requested.port = 0
    /\ lis = 1
    /\ sockets[1].by = 1
    /\ sockets[1].port # 0
    /\ lastAccept = [by |-> 3, socket |-> 1, result |-> "conn"]
    /\ Len(attempts) = 1
    /\ addrRet = requested

(***************************************************************************)
(* The deferred warning about the missing configuration file.              *)
(***************************************************************************)
\* C11: a missing configuration file fails nothing, and once the warning
\* about it is logged the resolution does not fail.
C11_WarningAfterAllValidation ==
    /\ pc = "failed" => err # "ConfigFileAbsent"
    /\ warned => pc # "failed"

(***************************************************************************)
(* The layers of the configuration.                                        *)
(***************************************************************************)
\* the value of a field by the layers: the command line's, else the
\* configuration file's, else the default
Layered(f) ==
    IF f \in DOMAIN args THEN args[f]
    ELSE IF iniFile.state = "present" /\ f \in DOMAIN iniFile.layer
    THEN iniFile.layer[f]
    ELSE defaultConfig[f]

LayeredConfig == [f \in DOMAIN defaultConfig |-> Layered(f)]

\* the fields the validation of the mode rewrites
ModeRewritten ==
    {"MacaroonDir", "LitTLSCertPath", "LitTLSKeyPath", "LitLogDir",
     "RPCListeners", "Bitcoin", "network"}

\* C12: when loadConfigFile has returned, every field the validation of the
\* mode does not rewrite holds the command line's value if it gave one,
\* else the file's if it sets one, else the default, and the configuration
\* is the validation of the mode applied to the fields layered so.
C12_CommandLineOverFileOverDefault ==
    pc = "validateLit"
       => /\ \A f \in DOMAIN defaultConfig \ ModeRewritten : cfg[f] = Layered(f)
          /\ \E x \in Collaborators(cfg, args, iniFile) :
                validateMode(LayeredConfig, x.lnd, x.env)
                   = [cfg |-> cfg, err |-> NoErr]

\* the command line and the file disagree on the mode and the file alone
\* sets the network
C12_Witness ==
    /\ pc = "validateLit"
    /\ iniFile.state = "present"
    /\ "LndMode" \in DOMAIN args
    /\ "LndMode" \in DOMAIN iniFile.layer
    /\ args.LndMode # iniFile.layer.LndMode
    /\ cfg.LndMode = args.LndMode
    /\ "Network" \notin DOMAIN args
    /\ "Network" \in DOMAIN iniFile.layer
    /\ cfg.Network = iniFile.layer.Network
    /\ cfg.Network # defaultConfig.Network

(***************************************************************************)
(* The password's environment variable.                                    *)
(***************************************************************************)
\* the environment variable is the source readUIPassword has consulted
EnvConsulted == Resolved /\ ~DirectValid /\ ~FileNamed /\ EnvNamed

\* C13 as stated: when the environment variable is the source consulted and
\* it is unset or blank, the resolution fails with EnvVarEmpty.
C13_BlankVariableFails ==
    EnvConsulted /\ TrimSpace(environ) = <<>>
       => pc = "failed" /\ err = "EnvVarEmpty"

\* C13: when the environment variable is the source consulted, the
\* resolution fails with EnvVarEmpty if the variable is unset or empty, and
\* otherwise succeeds with the trimmed value, which is the empty password
\* for a variable of white space only.
C13_EmptyVariableFails ==
    EnvConsulted
       => IF environ = <<>>
          THEN pc = "failed" /\ err = "EnvVarEmpty"
          ELSE /\ pc = "checkPassword"
               /\ err = NoErr
               /\ cfg.UIPassword = TrimSpace(environ)

\* the variable is named with a blank direct value and is empty
C13_Witness ==
    /\ EnvConsulted
    /\ args.UIPassword # <<>>
    /\ environ = <<>>
    /\ pc = "failed"
    /\ err = "EnvVarEmpty"

(***************************************************************************)
(* Where certificates are generated.                                       *)
(***************************************************************************)
\* a call of buildTLSConfigForHttp2
ProvisionCall == tlsCalls' = tlsCalls + 1

\* C14: a call generates a pair or writes a certificate or key file only in
\* remote mode without Let's Encrypt when neither file exists; a call in
\* integrated mode leaves both files as they are, generates nothing, and
\* without Let's Encrypt serves the in-process lnd's pair or fails to load it.
C14_GeneratesOnlySelfSigned ==
    [][ProvisionCall
          => /\ (\/ certFile' # certFile
                 \/ keyFile' # keyFile
                 \/ gens' # gens
                 \/ tlsLast'.generated)
                   => /\ cfg.LndMode = "remote"
                      /\ ~cfg.LetsEncrypt
                      /\ certFile = 0
                      /\ keyFile = 0
             /\ cfg.LndMode = "integrated"
                   => /\ certFile' = certFile
                      /\ keyFile' = keyFile
                      /\ gens' = gens
                      /\ ~tlsLast'.generated
                      /\ tlsLast'.loaded \in {0, -2, -3}
                      /\ ~cfg.LetsEncrypt
                            => /\ tlsLast'.loaded \in {0, -3}
                               /\ tlsLast'.result = "ok"
                                     => tlsLast'.loaded = -3 /\ lndPairOK
                               /\ ~lndPairOK
                                     => tlsLast'.result = "CertLoadFailed"]_vars

\* two calls in integrated mode, with no file at lit's own paths, have
\* served lnd's pair
C14_Witness ==
    /\ cfg.LndMode = "integrated"
    /\ ~cfg.LetsEncrypt
    /\ tlsCalls = 2
    /\ certFile = 0
    /\ keyFile = 0
    /\ gens = 0
    /\ tlsLast = [result |-> "ok", loaded |-> -3, generated |-> FALSE]

(***************************************************************************)
(* One onDemandListener and one caller: any sequence of Addr(), Accept()   *)
(* and Close() calls.                                                      *)
(***************************************************************************)
InitClose == NewListener(1)

NextClose ==
    \/ \E t \in DOMAIN tpc : AcceptBegin(t)
    \/ \E t \in DOMAIN tpc : AcceptListen(t)
    \/ \E t \in DOMAIN tpc : AcceptDo(t)
    \/ \E t \in DOMAIN tpc : AddrCall(t)
    \/ \E t \in DOMAIN tpc : CloseCall(t)

SpecClose == InitClose /\ [][NextClose]_vars

\* C15: no call of Close() crashes, whether the listener is bound or not.
C15_CloseNeverCrashes == ~crashed

\* Close() on a bound listener closes its socket and returns nil, and an
\* error once the socket is closed
CloseOfBoundListener ==
    /\ lastClose # "none" => lis # 0 /\ ~sockets[lis].open
    /\ crashed => lis = 0

(***************************************************************************)
(* One onDemandListener and two goroutines calling Accept().  The steps    *)
(* of Accept() interleave; the test of l.lis and the assignment to it are  *)
(* not synchronized.                                                       *)
(***************************************************************************)
MaxCallers == 2

InitRace == NewListener(MaxCallers)

NextRace ==
    \/ \E t \in DOMAIN tpc : AcceptBegin(t)
    \/ \E t \in DOMAIN tpc : AcceptListen(t)
    \/ \E t \in DOMAIN tpc : AcceptDo(t)

SpecRace == InitRace /\ [][NextRace]_vars

\* C16: once an Accept() has bound the listener, no Accept() calls
\* net.Listen again and the stored listener is neither replaced nor reset.
C16_BoundListenerStays ==
    [][lis # 0 => lis' = lis /\ attempts' = attempts]_vars

=============================================================================
